---- MODULE Spec2Model ----
(***************************************************************************)
(* neli: the Nl serialization trait with its implementations for u8, the   *)
(* wider integers, &[u8], Vec<u8>, &str and String (src/src/lib.rs), and   *)
(* the U32BitFlag / U32Bitmask utility (src/src/utils.rs).                 *)
(*                                                                         *)
(* A byte buffer (BytesMut, Bytes, &[u8]) is a sequence of bytes.  An      *)
(* integer value of width w is its base-256 numeral, most significant      *)
(* digit first; a text is the sequence of its UTF-8 bytes.  A u32 mask is  *)
(* the set of its set bit indices, 0 (least significant) to 31.            *)
(***************************************************************************)
EXTENDS Integers, Sequences, FiniteSets, TLC

VARIABLES
    endian,     \* byte order of the host: "little" or "big"
    self,       \* the value the codec methods are called on: [ty, v]
    mem,        \* the buffer the caller holds
    prev,       \* the buffer as it was handed to the last call
    calls,      \* the codec methods called so far, in order
    res,        \* its outcome: "Ok", an error variant, or a panic
    out,        \* the value an Ok deserialize returned
    pc,         \* "start", "serialized" or "done"
    checks,     \* build profile of the mask utility: overflow checks on?
    asked,      \* the position the last U32BitFlag::new was called with
    flag,       \* the U32BitFlag in hand: <<>> (none) or <<position>>
    mask,       \* the U32Bitmask in hand
    mres,       \* outcome of the last mask-utility call: "Ok", an error, a panic
    query,      \* the last is_set call, while its result is in hand: <<>>
                \* (none) or <<[bit, ret]>>, ret "true", "false" or a panic
    hist        \* what was applied to the mask since it was made: each entry
                \* is "from", "union" (| and +=) or "difference" (- and -=),
                \* with the position of the flag

codecVars == <<endian, self, mem, prev, calls, res, out, pc>>
maskVars == <<checks, asked, flag, mask, mres, query, hist>>
vars == <<endian, self, mem, prev, calls, res, out, pc,
          checks, asked, flag, mask, mres, query, hist>>

----------------------------------------------------------------------------
(* Bounds of the model *)

\* longest variable-length value and longest arbitrary input buffer
MaxLen == 2

\* largest u8 value drawn as `self`
U8_MAX == 255

\* largest bit position a flag is asked for
MaxPos == 33

\* most flag operations applied to one mask
MaxOps == 2

\* bytes the values and input buffers are built from: NUL, 'A', and the two
\* bytes of U+00E9 (a lead byte and a continuation byte, invalid on their own)
ByteSample == {0, 65, 195, 169}

\* bytes the exactly-sized (and off-by-one) buffers are pre-filled with
FillSample == {0, 255}

----------------------------------------------------------------------------
(* Helpers *)

Min(a, b) == IF a < b THEN a ELSE b

SeqsUpTo(S, n) == UNION {[1..k -> S] : k \in 0..n}

Fill(n, f) == [i \in 1..n |-> f]

Reverse(s) == [i \in 1..Len(s) |-> s[Len(s) + 1 - i]]

Ok(m) == [res |-> "Ok", mem |-> m, out |-> <<>>]
Value(x) == [res |-> "Ok", mem |-> <<>>, out |-> x]
Err(e, m) == [res |-> e, mem |-> m, out |-> <<>>]
Panic(msg, m) == [res |-> msg, mem |-> m, out |-> <<>>]

\* the messages a panic of this code can carry
Panics == {"panic: Integers have static size", "panic: Length already checked",
           "panic: not implemented", "panic: assertion failed",
           "panic: index out of bounds", "panic: length mismatch",
           "panic: attempt to subtract with overflow",
           "panic: attempt to shift left with overflow"}

IntTypes == {"u8", "u16", "u32", "i32", "u64"}
WideTypes == {"u16", "u32", "i32", "u64"}
SliceTypes == {"slice", "str"}
Types == IntTypes \cup {"slice", "vec", "str", "String"}

NLA_ALIGNTO == 4

----------------------------------------------------------------------------
(* The Nl trait: sizes *)

\* mem::size_of of the integer types
SizeOf(ty) ==
    CASE ty = "u8" -> 1
      [] ty = "u16" -> 2
      [] ty = "u32" -> 4
      [] ty = "i32" -> 4
      [] ty = "u64" -> 8

\* Nl::type_size: Some(width) is <<width>>, None is <<>>
type_size(ty) == IF ty \in IntTypes THEN <<SizeOf(ty)>> ELSE <<>>

\* Nl::size
size(x) ==
    CASE x.ty \in IntTypes -> SizeOf(x.ty)
      [] x.ty \in {"slice", "vec"} -> Len(x.v)
      [] x.ty \in {"str", "String"} -> Len(x.v) + 1

\* consts::alignto: the next multiple of the word size
alignto(n) == ((n + NLA_ALIGNTO - 1) \div NLA_ALIGNTO) * NLA_ALIGNTO

\* Nl::asize
asize(x) == alignto(size(x))

----------------------------------------------------------------------------
(* std::io::Write for &mut [u8], as the code uses it on mem.as_mut() *)

\* the bytes of dst after write(data): data is copied to the front of dst,
\* as much of it as fits
WriteBytes(dst, data) ==
    [i \in 1..Len(dst) |-> IF i <= Len(data) THEN data[i] ELSE dst[i]]

\* the count write(data) returns
WriteCount(dst, data) == Min(Len(data), Len(dst))

----------------------------------------------------------------------------
(* Nl::serialize *)

\* faulty variant: the check against a longer buffer is left out
u8_serialize_long(x, m) ==
    IF Len(m) < size(x) THEN Err("UnexpectedEOB", m)
    ELSE Ok(WriteBytes(m, <<x.v[1]>>))

\* faulty variant: the byte is never written
u8_serialize_nowrite(x, m) ==
    IF Len(m) < size(x) THEN Err("UnexpectedEOB", m)
    ELSE IF Len(m) > size(x) THEN Err("BufferNotFilled", m)
    ELSE Ok(m)

u8_serialize(x, m) ==
    LET sz == size(x) IN
    IF Len(m) < sz THEN Err("UnexpectedEOB", m)
    ELSE IF Len(m) > sz THEN Err("BufferNotFilled", m)
    ELSE Ok(WriteBytes(m, <<x.v[1]>>))

\* byteorder's NativeEndian::write_uN: the numeral in host byte order
NativeBytes(v) == IF endian = "big" THEN v ELSE Reverse(v)

\* put_int!: the length check of the other codecs, then the native write
put_int(x, m) ==
    LET sz == size(x) IN
    IF Len(m) < sz THEN Err("UnexpectedEOB", m)
    ELSE IF Len(m) > sz THEN Err("BufferNotFilled", m)
    ELSE Ok(WriteBytes(m, NativeBytes(x.v)))

slice_serialize(x, m) ==
    IF Len(m) > size(x) THEN Err("BufferNotFilled", m)
    ELSE IF Len(m) < size(x) THEN Err("UnexpectedEOB", m)
    ELSE IF Len(m) # Len(x.v) THEN Panic("panic: length mismatch", m)
    ELSE Ok(x.v)

vec_serialize(x, m) == slice_serialize([ty |-> "slice", v |-> x.v], m)

\* faulty variant: the terminator is never written
str_serialize_noterm(x, m) ==
    IF Len(m) > size(x) THEN Err("BufferNotFilled", m)
    ELSE IF Len(m) < size(x) THEN Err("UnexpectedEOB", m)
    ELSE Ok(WriteBytes(m, x.v))

str_serialize(x, m) ==
    IF Len(m) > size(x) THEN Err("BufferNotFilled", m)
    ELSE IF Len(m) < size(x) THEN Err("UnexpectedEOB", m)
    ELSE LET write_size == WriteCount(m, x.v)
             written == WriteBytes(m, x.v)
         IN  IF write_size + 1 # size(x)
             THEN Panic("panic: assertion failed", written)
             ELSE IF write_size >= Len(written)
             THEN Panic("panic: index out of bounds", written)
             ELSE Ok([written EXCEPT ![write_size + 1] = 0])

String_serialize(x, m) == str_serialize([ty |-> "str", v |-> x.v], m)

serialize(x, m) ==
    CASE x.ty = "u8" -> u8_serialize(x, m)
      [] x.ty \in WideTypes -> put_int(x, m)
      [] x.ty = "slice" -> slice_serialize(x, m)
      [] x.ty = "vec" -> vec_serialize(x, m)
      [] x.ty = "str" -> str_serialize(x, m)
      [] x.ty = "String" -> String_serialize(x, m)

----------------------------------------------------------------------------
(* Nl::pad *)

pad(x, m) ==
    LET padding_len == asize(x) - size(x)
        zeros == Fill(padding_len, 0)
    IN  IF WriteCount(m, zeros) = Len(zeros)
        THEN Ok(WriteBytes(m, zeros))
        ELSE Err("IOError", WriteBytes(m, zeros))

----------------------------------------------------------------------------
(* Nl::deserialize and NlSlice::deserialize_from_slice *)

\* faulty variant: the check against a longer buffer is left out
u8_deserialize_first(m) ==
    IF Len(m) < 1 THEN Err("UnexpectedEOB", m) ELSE Value(<<m[1]>>)

u8_deserialize(m) ==
    LET ts == type_size("u8") IN
    IF ts = <<>> THEN Panic("panic: Integers have static size", m)
    ELSE IF Len(m) < ts[1] THEN Err("UnexpectedEOB", m)
    ELSE IF Len(m) > ts[1] THEN Err("BufferNotParsed", m)
    ELSE IF Len(m) < 1 THEN Panic("panic: Length already checked", m)
    ELSE Value(<<m[1]>>)

\* byteorder's NativeEndian::read_uN: the numeral of bytes in host order
FromNative(b) == IF endian = "big" THEN b ELSE Reverse(b)

\* get_int!: the length check of the other codecs, then the native read
get_int(ty, m) ==
    LET sz == SizeOf(ty) IN
    IF Len(m) < sz THEN Err("UnexpectedEOB", m)
    ELSE IF Len(m) > sz THEN Err("BufferNotParsed", m)
    ELSE Value(FromNative(m))

slice_deserialize(m) == Panic("panic: not implemented", m)

slice_deserialize_from_slice(m) == Value(m)

vec_deserialize(m) == Value(m)

str_deserialize(m) == Err("Msg", m)

\* str::from_utf8 accepts b: one-byte and two-byte encodings; every other
\* byte of ByteSample is no lead byte
RECURSIVE Utf8From(_, _)
Utf8From(b, i) ==
    IF i > Len(b) THEN TRUE
    ELSE IF b[i] < 128 THEN Utf8From(b, i + 1)
    ELSE IF b[i] >= 194 /\ b[i] <= 223
    THEN /\ i + 1 <= Len(b)
         /\ b[i + 1] >= 128
         /\ b[i + 1] <= 191
         /\ Utf8From(b, i + 2)
    ELSE FALSE

from_utf8(b) == IF Utf8From(b, 1) THEN Value(b) ELSE Err("Msg", b)

\* faulty variant: the terminator is looked for in a non-empty buffer only
str_deserialize_from_slice_nonempty(m) ==
    IF Len(m) > 0 /\ m[Len(m)] # 0 THEN Err("NullError", m)
    ELSE from_utf8(SubSeq(m, 1, Len(m) - 1))

str_deserialize_from_slice(m) ==
    IF Len(m) = 0 \/ m[Len(m)] # 0 THEN Err("NullError", m)
    ELSE from_utf8(SubSeq(m, 1, Len(m) - 1))

String_deserialize(m) == str_deserialize_from_slice(m)

deserialize(ty, m) ==
    CASE ty = "u8" -> u8_deserialize(m)
      [] ty \in WideTypes -> get_int(ty, m)
      [] ty = "slice" -> slice_deserialize(m)
      [] ty = "vec" -> vec_deserialize(m)
      [] ty = "str" -> str_deserialize(m)
      [] ty = "String" -> String_deserialize(m)

deserialize_from_slice(ty, m) ==
    CASE ty = "slice" -> slice_deserialize_from_slice(m)
      [] ty = "str" -> str_deserialize_from_slice(m)

----------------------------------------------------------------------------
(* The values and buffers the calls are made with *)

\* the numerals drawn for an integer of w bytes: zero, one, the maximum,
\* the sign bit alone, and one whose digits all differ
Numerals(w) ==
    { Fill(w, 0), Fill(w, 255),
      [i \in 1..w |-> IF i = w THEN 1 ELSE 0],
      [i \in 1..w |-> IF i = 1 THEN 128 ELSE 0],
      [i \in 1..w |-> i] }

Texts == {b \in SeqsUpTo(ByteSample, MaxLen) : Utf8From(b, 1)}

ValuesOf(ty) ==
    CASE ty = "u8" -> {<<n>> : n \in 0..U8_MAX}
      [] ty \in WideTypes -> Numerals(SizeOf(ty))
      [] ty \in {"slice", "vec"} -> SeqsUpTo(ByteSample, MaxLen)
      [] ty \in {"str", "String"} -> Texts

Values == UNION {{[ty |-> ty, v |-> v] : v \in ValuesOf(ty)} : ty \in Types}

\* arbitrary short buffers, and pre-filled buffers of the value's size, one
\* byte less and one byte more
Buffers(x) ==
    SeqsUpTo(ByteSample, MaxLen)
      \cup {Fill(n, f) : n \in {k \in (size(x) - 1)..(size(x) + 1) : k >= 0},
                        f \in FillSample}

----------------------------------------------------------------------------
(* U32BitFlag and U32Bitmask.  A u32 is the set of its set bits, 0..31; an  *)
(* operation that can overflow returns [panic, bits], panic = "" if none.   *)

BITS == 32

Done(b) == [panic |-> "", bits |-> b]
Abort(msg) == [panic |-> msg, bits |-> {}]

\* 1 << (grp - 1) on u32.  With overflow checks the subtraction below 0 and
\* the shift by 32 or more panic; without them the subtraction wraps modulo
\* 2^32 and the shift amount is taken modulo 32.
num_to_set_mask(grp) ==
    IF grp - 1 < 0 /\ checks
    THEN Abort("panic: attempt to subtract with overflow")
    ELSE IF (grp - 1 < 0 \/ grp - 1 >= BITS) /\ checks
    THEN Abort("panic: attempt to shift left with overflow")
    ELSE Done({(grp - 1) % BITS})

\* U32BitFlag::new: <<position>> is Ok(U32BitFlag(position)), <<>> is Err
U32BitFlag_new(bit_num) == IF bit_num > 32 THEN <<>> ELSE <<bit_num>>

\* From<u32> for U32Bitmask
from_u32(v) == v

into_bitmask(f) ==
    LET m == num_to_set_mask(f) IN
    IF m.panic # "" THEN m ELSE Done(from_u32(m.bits))

\* From<U32BitFlag> for U32Bitmask
from_flag(f) == into_bitmask(f)

empty == {}

is_empty(m) == m = {}

\* U32Bitmask::is_set: [panic, set]
is_set(m, bit) ==
    IF bit > 32 THEN [panic |-> "", set |-> FALSE]
    ELSE LET set_mask == num_to_set_mask(bit) IN
         IF set_mask.panic # "" THEN [panic |-> set_mask.panic, set |-> FALSE]
         ELSE [panic |-> "", set |-> (set_mask.bits \cap m) = set_mask.bits]

\* BitOr<U32Bitmask> for U32Bitmask
bitor_mask(m, rhs) == from_u32(m \cup rhs)

\* BitOr<U32BitFlag> for U32Bitmask
bitor_flag(m, f) ==
    LET rhs == into_bitmask(f) IN
    IF rhs.panic # "" THEN rhs ELSE Done(bitor_mask(m, rhs.bits))

\* BitOr<U32Bitmask> for U32BitFlag
flag_bitor(f, m) ==
    LET lhs == into_bitmask(f) IN
    IF lhs.panic # "" THEN lhs ELSE Done(bitor_mask(lhs.bits, m))

\* faulty variant: the flag's mask is stored, not OR-ed in
add_assign_store(m, f) ==
    LET rhs == from_flag(f) IN
    IF rhs.panic # "" THEN rhs ELSE Done(rhs.bits)

\* AddAssign<U32BitFlag> for U32Bitmask
add_assign(m, f) ==
    LET rhs == from_flag(f) IN
    IF rhs.panic # "" THEN rhs ELSE Done(m \cup rhs.bits)

\* Sub<U32Bitmask> for U32Bitmask
sub_mask(m, rhs) == from_u32(m \cap ((0..(BITS - 1)) \ rhs))

\* Sub<U32BitFlag> for U32Bitmask
sub_flag(m, f) ==
    LET rhs == into_bitmask(f) IN
    IF rhs.panic # "" THEN rhs ELSE Done(sub_mask(m, rhs.bits))

\* faulty variant: the complement is left out
sub_assign_and(m, f) ==
    LET rhs == from_flag(f) IN
    IF rhs.panic # "" THEN rhs ELSE Done(m \cap rhs.bits)

\* SubAssign<U32BitFlag> for U32Bitmask
sub_assign(m, f) ==
    LET rhs == from_flag(f) IN
    IF rhs.panic # "" THEN rhs ELSE Done(m \cap ((0..(BITS - 1)) \ rhs.bits))

----------------------------------------------------------------------------
(* The codec: a caller holding a value and a buffer serializes, pads and   *)
(* deserializes.                                                            *)

CodecInit ==
    /\ endian \in {"little", "big"}
    /\ self \in Values
    /\ mem \in Buffers(self)
    /\ prev = mem
    /\ calls = <<>>
    /\ res = "none"
    /\ out = <<>>
    /\ pc = "start"

CodecIdle ==
    /\ endian = "little"
    /\ self = [ty |-> "u8", v |-> <<0>>]
    /\ mem = <<>>
    /\ prev = <<>>
    /\ calls = <<>>
    /\ res = "none"
    /\ out = <<>>
    /\ pc = "done"

\* the caller still holds a usable buffer: nothing was called yet, or the
\* serialize before returned it with Ok
Ready == pc = "start" \/ (pc = "serialized" /\ res = "Ok")

\* self.serialize(mem)
Serialize ==
    /\ pc = "start"
    /\ LET r == serialize(self, mem) IN
       /\ mem' = r.mem
       /\ res' = r.res
       /\ out' = r.out
    /\ prev' = mem
    /\ calls' = Append(calls, "serialize")
    /\ pc' = "serialized"
    /\ UNCHANGED <<endian, self>>
    /\ UNCHANGED maskVars

\* self.pad(mem)
Pad ==
    /\ Ready
    /\ LET r == pad(self, mem) IN
       /\ mem' = r.mem
       /\ res' = r.res
       /\ out' = r.out
    /\ prev' = mem
    /\ calls' = Append(calls, "pad")
    /\ pc' = "done"
    /\ UNCHANGED <<endian, self>>
    /\ UNCHANGED maskVars

\* Self::deserialize(mem.freeze()), Self the type of self
Deserialize ==
    /\ Ready
    /\ LET r == deserialize(self.ty, mem) IN
       /\ res' = r.res
       /\ out' = r.out
    /\ prev' = mem
    /\ calls' = Append(calls, "deserialize")
    /\ pc' = "done"
    /\ UNCHANGED <<endian, self, mem>>
    /\ UNCHANGED maskVars

\* Self::deserialize_from_slice(&mem), for the two NlSlice types
DeserializeFromSlice ==
    /\ Ready
    /\ self.ty \in SliceTypes
    /\ LET r == deserialize_from_slice(self.ty, mem) IN
       /\ res' = r.res
       /\ out' = r.out
    /\ prev' = mem
    /\ calls' = Append(calls, "deserialize_from_slice")
    /\ pc' = "done"
    /\ UNCHANGED <<endian, self, mem>>
    /\ UNCHANGED maskVars

----------------------------------------------------------------------------
(* The mask utility: a caller makes flags and applies them to a mask that  *)
(* starts empty.                                                            *)

MaskInit ==
    /\ checks \in BOOLEAN
    /\ asked = 0
    /\ flag = <<>>
    /\ mask = empty
    /\ mres = "Ok"
    /\ query = <<>>
    /\ hist = <<>>

MaskIdle ==
    /\ checks = FALSE
    /\ asked = 0
    /\ flag = <<>>
    /\ mask = empty
    /\ mres = "Ok"
    /\ query = <<>>
    /\ hist = <<>>

Running ==
    /\ mres \notin Panics
    /\ IF query = <<>> THEN TRUE ELSE query[1].ret \notin Panics

\* flag = U32BitFlag::new(bit_num)?
NewFlag ==
    /\ Running
    /\ flag = <<>>
    /\ Len(hist) < MaxOps
    /\ \E bit_num \in 0..MaxPos :
         /\ asked' = bit_num
         /\ flag' = U32BitFlag_new(bit_num)
         /\ mres' = IF flag' = <<>> THEN "BitRepError" ELSE "Ok"
    /\ query' = <<>>
    /\ UNCHANGED <<checks, mask, hist>>
    /\ UNCHANGED codecVars

\* the flag in hand is moved into the operation; r is what the operation gives
Apply(op, r) ==
    /\ mres' = IF r.panic # "" THEN r.panic ELSE "Ok"
    /\ mask' = IF r.panic # "" THEN mask ELSE r.bits
    /\ hist' = Append(hist, [op |-> op, pos |-> flag[1]])
    /\ flag' = <<>>
    /\ query' = <<>>
    /\ UNCHANGED <<checks, asked>>
    /\ UNCHANGED codecVars

HasFlag == Running /\ flag # <<>> /\ Len(hist) < MaxOps

\* mask = U32Bitmask::from(flag)
FromFlag == HasFlag /\ hist = <<>> /\ Apply("from", from_flag(flag[1]))

\* mask = mask | flag
BitOrFlag == HasFlag /\ Apply("union", bitor_flag(mask, flag[1]))

\* mask = flag | mask
FlagBitOr == HasFlag /\ Apply("union", flag_bitor(flag[1], mask))

\* mask += flag
AddAssign == HasFlag /\ Apply("union", add_assign(mask, flag[1]))

\* mask = mask - flag
SubFlag == HasFlag /\ Apply("difference", sub_flag(mask, flag[1]))

\* mask -= flag
SubAssign == HasFlag /\ Apply("difference", sub_assign(mask, flag[1]))

\* mask.is_set(bit)
IsSetCall ==
    /\ Running
    /\ query = <<>>
    /\ \E bit \in 0..MaxPos :
         LET r == is_set(mask, bit) IN
         query' = <<[bit |-> bit,
                     ret |-> IF r.panic # "" THEN r.panic
                             ELSE IF r.set THEN "true" ELSE "false"]>>
    /\ UNCHANGED <<checks, asked, flag, mask, mres, hist>>
    /\ UNCHANGED codecVars

----------------------------------------------------------------------------
(* Specifications *)

Init == CodecInit /\ MaskIdle

Next == Serialize \/ Pad \/ Deserialize \/ DeserializeFromSlice

Spec == Init /\ [][Next]_vars

InitMask == CodecIdle /\ MaskInit

NextMask ==
    \/ NewFlag
    \/ FromFlag
    \/ BitOrFlag
    \/ FlagBitOr
    \/ AddAssign
    \/ SubFlag
    \/ SubAssign

MaskSpec == InitMask /\ [][NextMask]_vars

NextQuery == NextMask \/ IsSetCall

QuerySpec == InitMask /\ [][NextQuery]_vars

----------------------------------------------------------------------------
(* Properties of the codec, checked under Spec *)

Last(s) == s[Len(s)]

\* the types whose serialize is written out in lib.rs
CoreTypes == {"u8", "slice", "vec", "str", "String"}

\* C1: serialize of a u8, byte span, byte collection or text succeeds only
\* into a buffer of exactly size() bytes; a shorter buffer fails with
\* UnexpectedEOB, a longer one with BufferNotFilled, and both errors carry
\* the buffer back with its length and bytes unchanged.
C1_SerializeLengthContract ==
    (calls = <<"serialize">> /\ self.ty \in CoreTypes) =>
        /\ (res = "Ok") => (Len(prev) = size(self))
        /\ (Len(prev) < size(self)) => (res = "UnexpectedEOB" /\ mem = prev)
        /\ (Len(prev) > size(self)) => (res = "BufferNotFilled" /\ mem = prev)

\* a one-byte value was serialized into a two-byte buffer
C1_Witness ==
    /\ calls = <<"serialize">>
    /\ self.ty = "u8"
    /\ prev = <<65, 0>>
    /\ res = "BufferNotFilled"
    /\ mem = prev

\* C2: owned decoding of the borrow-only types &[u8] and &str returns an
\* error value for every input buffer, and never panics.
C2_OwnedDecodeIsTypedError ==
    (calls # <<>> /\ Last(calls) = "deserialize" /\ self.ty \in SliceTypes) =>
        (res = "Msg" /\ res \notin Panics)

\* C5: serialize followed by pad on the returned buffer leaves the
\* serialized bytes in place, has the asize() - size() zero bytes follow
\* them, and changes nothing at all when size() = asize().
C5_PadKeepsSerializedBytes ==
    (calls = <<"serialize", "pad">>) =>
        /\ Len(mem) >= Len(prev)
        /\ SubSeq(mem, 1, Len(prev)) = prev
        /\ (res = "Ok") => (mem = prev \o Fill(asize(self) - size(self), 0))
        /\ (size(self) = asize(self)) => (res = "Ok" /\ mem = prev)

\* C6: an integer serialized into a buffer of exactly type_size() bytes
\* succeeds, and deserializing the returned bytes gives the integer back.
C6_FixedSizeRoundTrip ==
    (self.ty \in IntTypes) =>
        /\ (calls = <<"serialize">> /\ <<Len(prev)>> = type_size(self.ty))
              => (res = "Ok" /\ Len(mem) = Len(prev))
        /\ (calls = <<"serialize", "deserialize">>)
              => (res = "Ok" /\ out = self.v)

\* the largest u8 went through serialize and deserialize
C6_Witness ==
    /\ calls = <<"serialize", "deserialize">>
    /\ self = [ty |-> "u8", v |-> <<U8_MAX>>]
    /\ res = "Ok"
    /\ out = <<U8_MAX>>

\* C7: a text s has size() = len + 1; serialized into a buffer of exactly
\* that size it succeeds (the assertion holds) and gives the bytes of s and
\* one zero byte; deserialize_from_slice of those bytes gives s back.
C7_TextRoundTrip ==
    (self.ty = "str") =>
        /\ size(self) = Len(self.v) + 1
        /\ (calls = <<"serialize">> /\ Len(prev) = size(self))
              => (res = "Ok" /\ mem = self.v \o <<0>>)
        /\ (calls = <<"serialize", "deserialize_from_slice">>)
              => (res = "Ok" /\ out = self.v)

\* a text with a two-byte character went through serialize and the
\* borrowing decode
C7_Witness ==
    /\ calls = <<"serialize", "deserialize_from_slice">>
    /\ self = [ty |-> "str", v |-> <<195, 169>>]
    /\ prev = <<195, 169, 0>>
    /\ out = <<195, 169>>

\* C8: decoding text from a buffer that does not end in a zero byte, the
\* empty buffer included, fails with NullError, through
\* <&str>::deserialize_from_slice and through String::deserialize.
C8_MissingTerminator ==
    ( /\ calls # <<>>
      /\ \/ Last(calls) = "deserialize_from_slice" /\ self.ty = "str"
         \/ Last(calls) = "deserialize" /\ self.ty = "String"
      /\ (prev = <<>> \/ Last(prev) # 0) )
        => res = "NullError"

\* the empty buffer was decoded as a String
C8_Witness ==
    /\ calls = <<"deserialize">>
    /\ self.ty = "String"
    /\ prev = <<>>
    /\ res = "NullError"

\* C9: u8::deserialize fails with UnexpectedEOB on the empty buffer, with
\* BufferNotParsed on a buffer longer than one byte, returns the byte of a
\* one-byte buffer, and reaches neither of its two expect() panics.
C9_U8DecodeLengthCheck ==
    (calls # <<>> /\ Last(calls) = "deserialize" /\ self.ty = "u8") =>
        /\ (Len(prev) < 1) => res = "UnexpectedEOB"
        /\ (Len(prev) > 1) => res = "BufferNotParsed"
        /\ (Len(prev) = 1) => (res = "Ok" /\ out = <<prev[1]>>)
        /\ res \notin Panics

\* a two-byte buffer was decoded as a u8
C9_Witness ==
    /\ calls = <<"deserialize">>
    /\ self.ty = "u8"
    /\ Len(prev) = 2
    /\ res = "BufferNotParsed"

----------------------------------------------------------------------------
(* Properties of the mask utility, checked under MaskSpec *)

\* the positions a flag can address
Addressable == 1..BITS

\* is_set returned true
IsSet(m, bit) == is_set(m, bit).panic = "" /\ is_set(m, bit).set

\* is_set returned false
NotSet(m, bit) == is_set(m, bit).panic = "" /\ ~is_set(m, bit).set

\* U32BitFlag::new has just returned
NewReturned == flag # <<>> \/ mres = "BitRepError"

\* C3: U32BitFlag::new(p) fails with the range error for every p outside
\* 1..32, p = 0 and p = 33 included, and succeeds for every p in 1..32.
C3_FlagRangeChecked ==
    NewReturned =>
        /\ (asked \notin Addressable) => (mres = "BitRepError" /\ flag = <<>>)
        /\ (asked \in Addressable) => (mres = "Ok" /\ flag = <<asked>>)

\* C4: converting a flag that U32BitFlag::new returned into a mask, alone
\* or inside |, -, += and -=, completes without overflow, and the mask of a
\* flag at position p has bit p - 1 set and no other.
C4_FlagConversionTotal ==
    /\ mres \notin Panics
    /\ (Len(hist) = 1 /\ hist[1].op = "from") => (mask = {hist[1].pos - 1})

\* a flag was unioned into the empty mask
Unioned(k) ==
    /\ Len(hist) >= 1
    /\ hist[1].op = "union"
    /\ hist[1].pos = k

\* and the same flag was subtracted again
Subtracted(k) ==
    /\ Len(hist) = 2
    /\ hist[2].op = "difference"
    /\ hist[2].pos = k

\* C10: the empty mask has no position of 1..32 set; with a flag at
\* position k of 1..32 unioned in by | or +=, position k is set and no
\* other position of 1..32 is; with that flag subtracted again by - or -=
\* the mask is empty and no position is set.
C10_MaskAlgebra ==
    /\ (hist = <<>>) => (\A k \in Addressable : NotSet(mask, k))
    /\ \A k \in Addressable :
         /\ (Len(hist) = 1 /\ Unioned(k)) =>
               /\ IsSet(mask, k)
               /\ \A j \in Addressable \ {k} : NotSet(mask, j)
         /\ (Unioned(k) /\ Subtracted(k)) =>
               /\ is_empty(mask)
               /\ \A j \in Addressable : NotSet(mask, j)

\* the flag of the highest position was unioned into the empty mask and
\* subtracted again
C10_Witness ==
    /\ hist = <<[op |-> "union", pos |-> BITS],
                [op |-> "difference", pos |-> BITS]>>
    /\ mres = "Ok"
    /\ mask = {}

\* the operation of the last entry of h that used position k, "none" if no
\* entry did
RECURSIVE LastOp(_, _)
LastOp(h, k) ==
    IF h = <<>> THEN "none"
    ELSE IF Last(h).pos = k THEN Last(h).op
    ELSE LastOp(SubSeq(h, 1, Len(h) - 1), k)

\* the mask started empty and only unions and differences of flags at
\* positions 1..32 were applied to it
AssignSequence ==
    \A i \in 1..Len(hist) :
        /\ hist[i].op \in {"union", "difference"}
        /\ hist[i].pos \in Addressable

\* after such a sequence a position is set exactly when the last operation
\* that used it was a union
C12_LastOpDecides ==
    AssignSequence =>
        /\ mres \notin Panics
        /\ \A k \in Addressable :
             IF LastOp(hist, k) = "union"
             THEN IsSet(mask, k)
             ELSE NotSet(mask, k)

\* one more operation of such a sequence leaves every bit but its flag's
\* own as it was, and changes nothing when it repeats the operation before
C12_Step ==
    (Len(hist') = Len(hist) + 1 /\ AssignSequence') =>
        /\ \A b \in 0..(BITS - 1) :
             (b # Last(hist').pos - 1) => ((b \in mask') <=> (b \in mask))
        /\ IF hist # <<>>
           THEN (Last(hist) = Last(hist')) => (mask' = mask)
           ELSE TRUE

\* C12: after any sequence of += and -= on a mask that starts empty, each
\* with a flag at a position in 1..32, is_set(k) is true for k in 1..32
\* exactly when the last operation that used k was +=; each operation
\* changes at most the bit of its own flag, and repeating it changes nothing.
C12_AssignSequences == []C12_LastOpDecides /\ [][C12_Step]_vars

\* a flag was subtracted from the empty mask and then added
C12_Witness ==
    /\ hist = <<[op |-> "difference", pos |-> 7], [op |-> "union", pos |-> 7]>>
    /\ mres = "Ok"
    /\ mask = {6}
    /\ IsSet(mask, 7)

----------------------------------------------------------------------------
(* Properties of is_set, checked under QuerySpec *)

\* C11: is_set(bit) returns for every position and never panics: false for
\* every position outside 1..32 whatever the mask is, and for a position in
\* 1..32 true exactly when bit (position - 1) of the mask is set.
C11_IsSetTotal ==
    (query # <<>>) =>
        /\ query[1].ret \notin Panics
        /\ (query[1].bit \notin Addressable) => (query[1].ret = "false")
        /\ (query[1].bit \in Addressable) =>
              ((query[1].ret = "true") <=> (query[1].bit - 1 \in mask))

====
